---- MODULE Spec2Model ----
(***************************************************************************)
(* Contact management CLI (main.py, models_sqlalchemy.py): the contacts    *)
(* table and the five commands add / list / update / delete / search.      *)
(*                                                                         *)
(* The table is the one the default configuration creates                  *)
(* (db_url = sqlite:///contacts.db): an SQLite rowid table whose           *)
(* INTEGER PRIMARY KEY is declared without AUTOINCREMENT, with UNIQUE and  *)
(* NOT NULL constraints on email and phone and NOT NULL on name.           *)
(* Text values are sequences of one-character strings.                     *)
(***************************************************************************)
EXTENDS Integers, Sequences, FiniteSets, TLC

VARIABLES contacts, prev, call, out, issued, pc, session

vars == <<contacts, prev, call, out, issued, pc, session>>

\* ------------------------------------------------------------------ bounds
MaxId == 3
MaxPage == 3
MaxPerPage == 2

\* ------------------------------------------------------------------ values
\* Python's None: an argparse option that was not given.
None == <<"None">>

Names == { <<>>, <<"A", "l">>, <<"B">> }
Emails == { <<>>, <<"a">>, <<"b">> }
Phones == { <<>>, <<"1">>, <<"2">> }

NameTerms == { None, <<>>, <<"a", "L">>, <<"_">> }
EmailTerms == { None, <<"A">>, <<"%">> }
PhoneTerms == { None, <<"1">> }

Ids == 1..MaxId

\* Python truthiness of an optional string argument: `if new_email:`.
Truthy(x) == x # None /\ x # <<>>

Max(S) == CHOOSE m \in S : \A x \in S : x <= m

\* ------------------------------------------------------------ the schema
Contact(name, email, phone) == [name |-> name, email |-> email, phone |-> phone]

\* nullable=False on name, email and phone: only NULL is rejected.
NotNull(c) ==
    \A i \in DOMAIN c : c[i].name # None /\ c[i].email # None /\ c[i].phone # None

UniqueEmailOnly(c) ==
    \A i, j \in DOMAIN c : i # j => c[i].email # c[j].email

\* unique=True on email and on phone.
Unique(c) ==
    \A i, j \in DOMAIN c :
        i # j => c[i].email # c[j].email /\ c[i].phone # c[j].phone

\* The rowid SQLite gives an INSERT without id: one more than the largest
\* rowid in the table, 1 for an empty table.
NextRowid(c) == IF DOMAIN c = {} THEN 1 ELSE Max(DOMAIN c) + 1

\* ------------------------------------------------------------ the session
commit_no_rollback(c, cand) ==
    IF NotNull(cand) /\ Unique(cand)
    THEN [ok |-> TRUE, store |-> cand]
    ELSE [ok |-> FALSE, store |-> cand]

\* session.commit() flushes the pending change; a constraint violation raises
\* IntegrityError and the handler's session.rollback() restores the table.
commit(c, cand) ==
    IF NotNull(cand) /\ Unique(cand)
    THEN [ok |-> TRUE, store |-> cand]
    ELSE [ok |-> FALSE, store |-> c]

NotFound == [name |-> None, email |-> None, phone |-> None]

\* session.query(Contact).filter(Contact.id == contact_id).one_or_none()
get_contact(c, id) == IF id \in DOMAIN c THEN c[id] ELSE NotFound

Result(kind, id, rows, store) ==
    [kind |-> kind, id |-> id, rows |-> rows, store |-> store]

Row(c, i) ==
    [id |-> i, name |-> c[i].name, email |-> c[i].email, phone |-> c[i].phone]

\* ---------------------------------------------------------------- add
add_contact_swapped(c, name, email, phone) ==
    LET id == NextRowid(c)
        r  == commit(c, c @@ (id :> Contact(name, phone, email)))
    IN  IF r.ok THEN Result("added", id, <<>>, r.store)
        ELSE Result("integrity_error", 0, <<>>, r.store)

add_contact(c, name, email, phone) ==
    LET id == NextRowid(c)
        r  == commit(c, c @@ (id :> Contact(name, email, phone)))
    IN  IF r.ok THEN Result("added", id, <<>>, r.store)
        ELSE Result("integrity_error", 0, <<>>, r.store)

\* ---------------------------------------------------------------- update
update_contact_two_commits(c, contact_id, new_email, new_phone) ==
    IF get_contact(c, contact_id) = NotFound
    THEN Result("not_found", 0, <<>>, c)
    ELSE LET old == c[contact_id]
             e   == IF Truthy(new_email) THEN new_email ELSE old.email
             p   == IF Truthy(new_phone) THEN new_phone ELSE old.phone
             r1  == commit(c, [c EXCEPT ![contact_id] = Contact(old.name, e, old.phone)])
             r2  == commit(r1.store, [r1.store EXCEPT ![contact_id] = Contact(old.name, e, p)])
         IN  IF ~r1.ok THEN Result("integrity_error", 0, <<>>, r1.store)
             ELSE IF ~r2.ok THEN Result("integrity_error", 0, <<>>, r2.store)
             ELSE Result("updated", contact_id, <<>>, r2.store)

update_contact_unguarded(c, contact_id, new_email, new_phone) ==
    IF get_contact(c, contact_id) = NotFound
    THEN Result("not_found", 0, <<>>, c)
    ELSE LET old == c[contact_id]
             new == Contact(old.name,
                            IF new_email # None THEN new_email ELSE old.email,
                            IF new_phone # None THEN new_phone ELSE old.phone)
             r   == commit(c, [c EXCEPT ![contact_id] = new])
         IN  IF r.ok THEN Result("updated", contact_id, <<>>, r.store)
             ELSE Result("integrity_error", 0, <<>>, r.store)

update_contact(c, contact_id, new_email, new_phone) ==
    IF get_contact(c, contact_id) = NotFound
    THEN Result("not_found", 0, <<>>, c)
    ELSE LET old == c[contact_id]
             new == Contact(old.name,
                            IF Truthy(new_email) THEN new_email ELSE old.email,
                            IF Truthy(new_phone) THEN new_phone ELSE old.phone)
             r   == commit(c, [c EXCEPT ![contact_id] = new])
         IN  IF r.ok THEN Result("updated", contact_id, <<>>, r.store)
             ELSE Result("integrity_error", 0, <<>>, r.store)

\* ---------------------------------------------------------------- delete
delete_contact_uncommitted(c, contact_id) ==
    IF get_contact(c, contact_id) = NotFound
    THEN Result("not_found", 0, <<>>, c)
    ELSE Result("deleted", contact_id, <<>>, c)

delete_contact(c, contact_id) ==
    IF get_contact(c, contact_id) = NotFound
    THEN Result("not_found", 0, <<>>, c)
    ELSE Result("deleted", contact_id, <<>>,
                [i \in DOMAIN c \ {contact_id} |-> c[i]])

\* ---------------------------------------------------------------- list
RECURSIVE TableScan(_, _)
\* session.query(Contact) without order_by: SQLite walks the table B-tree,
\* which is keyed by rowid. The second parameter is the set of rowids left.
TableScan(c, S) ==
    IF S = {} THEN <<>>
    ELSE LET m == CHOOSE x \in S : \A y \in S : x <= y
         IN  <<Row(c, m)>> \o TableScan(c, S \ {m})

Offset(rows, n) == IF n >= Len(rows) THEN <<>> ELSE SubSeq(rows, n + 1, Len(rows))

Limit(rows, n) == IF n >= Len(rows) THEN rows ELSE SubSeq(rows, 1, n)

list_contacts_next_page(c, page, per_page) ==
    LET rows == Limit(Offset(TableScan(c, DOMAIN c), page * per_page), per_page)
    IN  Result(IF rows = <<>> THEN "empty_page" ELSE "listed", 0, rows, c)

list_contacts(c, page, per_page) ==
    LET rows == Limit(Offset(TableScan(c, DOMAIN c), (page - 1) * per_page), per_page)
    IN  Result(IF rows = <<>> THEN "empty_page" ELSE "listed", 0, rows, c)

\* ---------------------------------------------------------------- search
\* lower(): ASCII letters only.
Lower(ch) ==
    CASE ch = "A" -> "a"
      [] ch = "B" -> "b"
      [] ch = "L" -> "l"
      [] OTHER -> ch

LowerStr(s) == [i \in 1..Len(s) |-> Lower(s[i])]

RECURSIVE LikeMatch(_, _)
\* SQL LIKE: % matches any run of characters, _ matches exactly one.
LikeMatch(s, p) ==
    IF p = <<>> THEN s = <<>>
    ELSE IF Head(p) = "%"
         THEN LikeMatch(s, Tail(p)) \/ (s # <<>> /\ LikeMatch(Tail(s), p))
         ELSE /\ s # <<>>
              /\ (Head(p) = "_" \/ Head(p) = Head(s))
              /\ LikeMatch(Tail(s), Tail(p))

\* Contact.name.ilike(f"%{name}%"): lower(column) LIKE lower(pattern).
ILike(col, term) == LikeMatch(LowerStr(col), LowerStr(<<"%">> \o term \o <<"%">>))

Matches(r, name, email, phone) ==
    /\ Truthy(name) => ILike(r.name, name)
    /\ Truthy(email) => ILike(r.email, email)
    /\ Truthy(phone) => ILike(r.phone, phone)

search_contacts(c, name, email, phone) ==
    LET rows == SelectSeq(TableScan(c, DOMAIN c),
                          LAMBDA r : Matches(r, name, email, phone))
    IN  Result(IF rows = <<>> THEN "no_match" ELSE "found", 0, rows, c)

\* ------------------------------------------------------------ the commands
Call(op, id, name, email, phone, page, per_page) ==
    [op |-> op, id |-> id, name |-> name, email |-> email, phone |-> phone,
     page |-> page, per_page |-> per_page]

Out(r) == [kind |-> r.kind, id |-> r.id, rows |-> r.rows]

\* No command has run in the current process.
NoCall == Call("none", 0, None, None, None, 0, 0)

NoOut == [kind |-> "none", id |-> 0, rows |-> <<>>]

Init ==
    /\ contacts = << >>
    /\ prev = << >>
    /\ call = NoCall
    /\ out = NoOut
    /\ issued = {}
    /\ pc = "start"
    /\ session = "none"

Add ==
    /\ pc = "ready"
    /\ pc' = "ran"
    /\ UNCHANGED session
    /\ call = NoCall
    /\ \E name \in Names, email \in Emails, phone \in Phones :
        /\ NextRowid(contacts) <= MaxId
        /\ LET r == add_contact(contacts, name, email, phone)
           IN  /\ contacts' = r.store
               /\ out' = Out(r)
               /\ issued' = IF r.kind = "added" THEN issued \cup {r.id} ELSE issued
        /\ prev' = contacts
        /\ call' = Call("add", 0, name, email, phone, 0, 0)

List ==
    /\ pc = "ready"
    /\ pc' = "ran"
    /\ UNCHANGED session
    /\ call = NoCall
    /\ \E page \in 1..MaxPage, per_page \in 1..MaxPerPage :
        /\ LET r == list_contacts(contacts, page, per_page)
           IN  /\ contacts' = r.store
               /\ out' = Out(r)
        /\ prev' = contacts
        /\ call' = Call("list", 0, None, None, None, page, per_page)
        /\ UNCHANGED issued

Update ==
    /\ pc = "ready"
    /\ pc' = "ran"
    /\ UNCHANGED session
    /\ call = NoCall
    /\ \E id \in Ids, email \in Emails \cup {None}, phone \in Phones \cup {None} :
        /\ LET r == IF ~Truthy(email) /\ ~Truthy(phone)
                    THEN Result("usage", 0, <<>>, contacts)
                    ELSE update_contact(contacts, id, email, phone)
           IN  /\ contacts' = r.store
               /\ out' = Out(r)
        /\ prev' = contacts
        /\ call' = Call("update", id, None, email, phone, 0, 0)
        /\ UNCHANGED issued

Delete ==
    /\ pc = "ready"
    /\ pc' = "ran"
    /\ UNCHANGED session
    /\ call = NoCall
    /\ \E id \in Ids :
        /\ LET r == delete_contact(contacts, id)
           IN  /\ contacts' = r.store
               /\ out' = Out(r)
        /\ prev' = contacts
        /\ call' = Call("delete", id, None, None, None, 0, 0)
        /\ UNCHANGED issued

Search ==
    /\ pc = "ready"
    /\ pc' = "ran"
    /\ UNCHANGED session
    /\ call = NoCall
    /\ \E name \in NameTerms, email \in EmailTerms, phone \in PhoneTerms :
        /\ LET r == IF ~Truthy(name) /\ ~Truthy(email) /\ ~Truthy(phone)
                    THEN Result("usage", 0, <<>>, contacts)
                    ELSE search_contacts(contacts, name, email, phone)
           IN  /\ contacts' = r.store
               /\ out' = Out(r)
        /\ prev' = contacts
        /\ call' = Call("search", 0, name, email, phone, 0, 0)
        /\ UNCHANGED issued

\* setup_database(db_url): the engine and the session are created.
setup_database ==
    /\ pc = "start"
    /\ pc' = "acquired"
    /\ session' = "open"
    /\ UNCHANGED <<contacts, prev, call, out, issued>>

\* create_tables(engine) returns: the schema exists.
create_tables ==
    /\ pc = "acquired"
    /\ pc' = "ready"
    /\ UNCHANGED <<contacts, prev, call, out, issued, session>>

\* create_tables(engine) raises (the store cannot be opened): main has no
\* try/finally, the exception leaves main and the process ends.
create_tables_raises ==
    /\ pc = "acquired"
    /\ pc' = "exited"
    /\ UNCHANGED <<contacts, prev, call, out, issued, session>>

\* session.close(); engine.dispose(); the process ends and the table stays
\* on disk for the next invocation.
Exit ==
    /\ pc = "ran"
    /\ call # NoCall
    /\ pc' = "exited"
    /\ session' = "closed"
    /\ call' = NoCall
    /\ out' = NoOut
    /\ prev' = contacts
    /\ UNCHANGED <<contacts, issued>>

\* The next invocation of the CLI, a new process.
Invoke ==
    /\ pc = "exited"
    /\ pc' = "start"
    /\ session' = "none"
    /\ UNCHANGED <<contacts, prev, call, out, issued>>

Next ==
    \/ setup_database \/ create_tables \/ create_tables_raises
    \/ Add \/ List \/ Update \/ Delete \/ Search
    \/ Exit \/ Invoke

Spec == Init /\ [][Next]_vars

\* ================================================================ claims
EmailUsed(c, skip, e) == \E i \in DOMAIN c \ {skip} : c[i].email = e

PhoneUsed(c, skip, p) == \E i \in DOMAIN c \ {skip} : c[i].phone = p

Size(c) == Cardinality(DOMAIN c)

\* C1: in every reachable store no two distinct contacts share an email and
\* no two distinct contacts share a phone, whatever operations ran before.
C1_UniqueEmailAndPhone ==
    \A i, j \in DOMAIN contacts :
        i # j => /\ contacts[i].email # contacts[j].email
                 /\ contacts[i].phone # contacts[j].phone

C1_Witness ==
    /\ Size(contacts) >= 2
    /\ call.op \in {"add", "update"}
    /\ out.kind = "integrity_error"

\* C2: Create with an email or a phone that an existing contact already has
\* ends in the duplicate-key (integrity) error and the store is exactly the
\* store before the call.
C2_DuplicateCreateRejected ==
    (/\ call.op = "add"
     /\ (EmailUsed(prev, 0, call.email) \/ PhoneUsed(prev, 0, call.phone)))
    => (out.kind = "integrity_error" /\ contacts = prev)

C2_Witness ==
    /\ call.op = "add"
    /\ ~EmailUsed(prev, 0, call.email)
    /\ PhoneUsed(prev, 0, call.phone)
    /\ out.kind = "integrity_error"

\* C3: an Update that does not succeed leaves the store as it was: an unknown
\* id reports not-found, and a new email or new phone that another row holds
\* reports the duplicate-key error with none of the changes applied, also
\* when two fields are supplied and only one of them collides.
C3_FailedUpdateChangesNothing ==
    (call.op = "update" /\ out.kind # "usage") =>
        /\ (call.id \notin DOMAIN prev
                => out.kind = "not_found" /\ contacts = prev)
        /\ ((/\ call.id \in DOMAIN prev
             /\ \/ (Truthy(call.email) /\ EmailUsed(prev, call.id, call.email))
                \/ (Truthy(call.phone) /\ PhoneUsed(prev, call.id, call.phone)))
                => out.kind = "integrity_error" /\ contacts = prev)
        /\ (out.kind # "updated" => contacts = prev)

C3_Witness ==
    /\ call.op = "update"
    /\ call.id \in DOMAIN prev
    /\ Truthy(call.email) /\ Truthy(call.phone)
    /\ ~EmailUsed(prev, call.id, call.email)
    /\ call.email # prev[call.id].email
    /\ PhoneUsed(prev, call.id, call.phone)
    /\ out.kind = "integrity_error"

\* C4: Create with an empty name, email or phone fails with a validation
\* error and persists nothing, so every persisted contact has a non-empty
\* name, email and phone.
C4_EmptyFieldsRejected ==
    /\ (/\ call.op = "add"
        /\ (call.name = <<>> \/ call.email = <<>> \/ call.phone = <<>>))
       => (out.kind = "validation_error" /\ contacts = prev)
    /\ \A i \in DOMAIN contacts :
        /\ contacts[i].name # <<>>
        /\ contacts[i].email # <<>>
        /\ contacts[i].phone # <<>>

\* C5: Create with non-empty fields whose email and phone no contact uses
\* succeeds, adds exactly one row, returns an id no contact had before, and a
\* lookup of that id yields the given name, email and phone.
C5_CreateThenGet ==
    (/\ call.op = "add"
     /\ call.name # <<>> /\ call.email # <<>> /\ call.phone # <<>>
     /\ ~EmailUsed(prev, 0, call.email)
     /\ ~PhoneUsed(prev, 0, call.phone))
    => /\ out.kind = "added"
       /\ Size(contacts) = Size(prev) + 1
       /\ out.id \notin DOMAIN prev
       /\ get_contact(contacts, out.id) = Contact(call.name, call.email, call.phone)
       /\ \A i \in DOMAIN prev : get_contact(contacts, i) = prev[i]

C5_Witness ==
    /\ call.op = "add"
    /\ call.name # <<>> /\ call.email # <<>> /\ call.phone # <<>>
    /\ Size(prev) >= 1
    /\ out.kind = "added"

\* C6: a successful Update changes only the supplied fields of the contact
\* with that id: a field that was not supplied (not given, or given empty)
\* keeps its value, name and id stay, every other contact is untouched.
C6_UpdateFrame ==
    (call.op = "update" /\ out.kind = "updated") =>
        /\ DOMAIN contacts = DOMAIN prev
        /\ call.id \in DOMAIN prev
        /\ \A i \in DOMAIN prev \ {call.id} : contacts[i] = prev[i]
        /\ contacts[call.id].name = prev[call.id].name
        /\ contacts[call.id].email =
              IF Truthy(call.email) THEN call.email ELSE prev[call.id].email
        /\ contacts[call.id].phone =
              IF Truthy(call.phone) THEN call.phone ELSE prev[call.id].phone

C6_Witness ==
    /\ call.op = "update"
    /\ out.kind = "updated"
    /\ Size(prev) >= 2
    /\ Truthy(call.email)
    /\ call.phone = None
    /\ call.email # prev[call.id].email
    /\ prev[call.id].phone # <<>>

\* C7: ids are never reused or changed: no Create returns an id that an
\* earlier Create returned, even after that contact was deleted, and no
\* Update changes the set of ids.
C7_IdNeverReused ==
    [][/\ (call'.op = "add" /\ out'.kind = "added") => out'.id \notin issued
       /\ call'.op = "update" => DOMAIN contacts' = DOMAIN contacts]_vars

\* C8: Delete of an existing id removes exactly that contact, so a lookup of
\* the id reports not-found and the others are unchanged; Delete of an id
\* that is not there (a second Delete included) reports not-found and
\* changes nothing.
C8_DeleteExact ==
    call.op = "delete" =>
        IF call.id \in DOMAIN prev
        THEN /\ out.kind = "deleted"
             /\ DOMAIN contacts = DOMAIN prev \ {call.id}
             /\ \A i \in DOMAIN contacts : contacts[i] = prev[i]
             /\ get_contact(contacts, call.id) = NotFound
        ELSE /\ out.kind = "not_found"
             /\ contacts = prev

C8_Witness ==
    /\ call.op = "delete"
    /\ out.kind = "not_found"
    /\ call.id \in issued
    /\ Size(contacts) >= 1

\* The k-th smallest id of a store.
KthId(c, k) == CHOOSE x \in DOMAIN c : Cardinality({y \in DOMAIN c : y < x}) = k - 1

ExpectedPage(c, page, per_page) ==
    LET skip == (page - 1) * per_page
        left == IF Size(c) > skip THEN Size(c) - skip ELSE 0
        n    == IF left < per_page THEN left ELSE per_page
    IN  [k \in 1..n |-> Row(c, KthId(c, skip + k))]

ContainsCI(col, term) ==
    \E i \in 0..(Len(col) - Len(term)) :
        \A j \in 1..Len(term) : Lower(col[i + j]) = Lower(term[j])

SubstringMatches(c, name, email, phone) ==
    { Row(c, i) : i \in { x \in DOMAIN c :
        /\ Truthy(name) => ContainsCI(c[x].name, name)
        /\ Truthy(email) => ContainsCI(c[x].email, email)
        /\ Truthy(phone) => ContainsCI(c[x].phone, phone) } }

NoEmptyField(c) ==
    \A i \in DOMAIN c : c[i].name # <<>> /\ c[i].email # <<>> /\ c[i].phone # <<>>

\* C10: Search returns exactly the contacts in which every supplied field
\* occurs as a case-insensitive substring of its column (AND of the supplied
\* filters), an empty sequence when none does, and never changes the store.
\* Stated over stores without empty fields, so that a violation does not
\* rest on contacts that C4 says cannot exist.
C10_SearchSubstring ==
    (call.op = "search" /\ out.kind # "usage" /\ NoEmptyField(prev)) =>
        /\ { out.rows[k] : k \in 1..Len(out.rows) }
              = SubstringMatches(prev, call.name, call.email, call.phone)
        /\ Len(out.rows) = Cardinality({ out.rows[k] : k \in 1..Len(out.rows) })
        /\ contacts = prev

\* C11: in every run of main that acquired the storage connection, the
\* session is closed (and the engine disposed) before the process exits,
\* whether schema creation and the command succeed or fail.
C11_ReleasedBeforeExit ==
    pc = "exited" => session = "closed"

====
